---------------------------- MODULE Spec2Model ----------------------------
(***************************************************************************)
(* A model of the posting-time scorer of the sentiment posting assistant   *)
(* (src/src/scheduler.py, class PostingScheduler).                         *)
(*                                                                         *)
(* Numbers.  A Python float is modelled by an exact fixed-point integer:   *)
(* the value 1.0 is 10000 * Den units (Dec(10000)), so 0.0001 is Den       *)
(* and the mean of up to MaxHist engagement values is an integer.  The     *)
(* values that can be NaN (the history adjustment, a slot's final score)   *)
(* are records [nan, val]; comparisons with NaN are false, as in Python.   *)
(*                                                                         *)
(* Objects.  self.time_slots is a list of references to 42 dict objects;   *)
(* heap maps a reference to the dict it names, a dict being a record       *)
(* whose DOMAIN is the dict's key set.                                     *)
(*                                                                         *)
(* The assistant.  SocialMediaAssistant.run_analysis (src/src/main.py) is  *)
(* one action over the same scheduler: its engagement history, the files   *)
(* it writes and what its last run returned.                               *)
(***************************************************************************)
EXTENDS Integers, Sequences, FiniteSets, TLC

\* ------------------------------------------------------------------ bounds

\* The longest engagement history passed to a call.
MaxHist == 2

\* The number of calculate_optimal_times calls in a sequential run.
MaxCalls == 2

\* The number of preemptions in a concurrent run of two calls.
MaxSwitches == 2

\* The patterns of random draws a call is tried with: 0..MaxJitterPattern.
MaxJitterPattern == 1

\* The number of run_analysis calls on one assistant.
MaxRuns == 2

\* ----------------------------------------------------------------- numbers

RECURSIVE Fact(_)
Fact(n) == IF n <= 1 THEN 1 ELSE n * Fact(n - 1)

\* Units per 0.0001: every mean of at most MaxHist values is exact.
Den == Fact(MaxHist)

\* The decimal literal  n / 10000  (0.85 is Dec(8500)).
Dec(n) == n * Den

\* x * (num / den), exact on the values the model uses.
Scale(x, num, den) == (x * num) \div den

Abs(x) == IF x < 0 THEN -x ELSE x

\* A float that is a number, and the float NaN.
F(v) == [nan |-> FALSE, val |-> v]
NaN == [nan |-> TRUE, val |-> 0]

\* Python's  a < b  on floats: false when either is NaN.
FLt(a, b) == ~a.nan /\ ~b.nan /\ a.val < b.val

\* Python's  a >= b  on floats.
FGe(a, b) == ~a.nan /\ ~b.nan /\ a.val >= b.val

\* Python's  a + b  on floats.
FAdd(a, b) == IF a.nan \/ b.nan THEN NaN ELSE F(a.val + b.val)

\* Python's builtin min(a, b): the first argument unless the second is less.
PyMin(a, b) == IF FLt(b, a) THEN b ELSE a

\* Python's builtin max(a, b): the first argument unless the second is greater.
PyMax(a, b) == IF FLt(a, b) THEN b ELSE a

\* The function f as an explicit table of its values: the same function,
\* evaluated once instead of at every use.
Table(f) == IF f = f THEN f ELSE f


\* ----------------------------------------------------------------- catalog

days == <<"Monday", "Tuesday", "Wednesday", "Thursday", "Friday",
          "Saturday", "Sunday">>

time_ranges == << <<"09:00", "11:00">>, <<"11:00", "13:00">>,
                  <<"13:00", "15:00">>, <<"15:00", "17:00">>,
                  <<"17:00", "19:00">>, <<"19:00", "21:00">> >>

NumSlots == Len(days) * Len(time_ranges)

\* The references of the dict objects _initialize_time_slots creates, in the
\* order it appends them.
Refs == 1..NumSlots

\* int(start_time.split(':')[0]) on the clock strings of time_ranges.
HourOfClock(start_time) ==
    CASE start_time = "09:00" -> 9
      [] start_time = "11:00" -> 11
      [] start_time = "13:00" -> 13
      [] start_time = "15:00" -> 15
      [] start_time = "17:00" -> 17
      [] start_time = "19:00" -> 19
      [] start_time = "21:00" -> 21

IntMin(a, b) == IF b < a THEN b ELSE a

\* The base score with the morning bonus for the hours 9 and 10 only.
CalculateBaseScoreNineToTen(day, start_time) ==
    LET base0 == IF day \in {"Tuesday", "Wednesday", "Thursday"} THEN Dec(7000)
                 ELSE IF day \in {"Monday", "Friday"} THEN Dec(6000)
                 ELSE Dec(5000)
        hour == HourOfClock(start_time)
        base == IF 9 <= hour /\ hour < 11 THEN base0 + Dec(1500)
                ELSE IF 13 <= hour /\ hour <= 15 THEN base0 + Dec(1000)
                ELSE IF 19 <= hour /\ hour <= 21 THEN base0 + Dec(500)
                ELSE base0
    IN  IntMin(base, Dec(9500))

\* The base score with a morning bonus of 0.05 in place of 0.15.
CalculateBaseScoreSmallMorning(day, start_time) ==
    LET base0 == IF day \in {"Tuesday", "Wednesday", "Thursday"} THEN Dec(7000)
                 ELSE IF day \in {"Monday", "Friday"} THEN Dec(6000)
                 ELSE Dec(5000)
        hour == HourOfClock(start_time)
        base == IF 9 <= hour /\ hour <= 11 THEN base0 + Dec(500)
                ELSE IF 13 <= hour /\ hour <= 15 THEN base0 + Dec(1000)
                ELSE IF 19 <= hour /\ hour <= 21 THEN base0 + Dec(500)
                ELSE base0
    IN  IntMin(base, Dec(9500))

CalculateBaseScore(day, start_time) ==
    LET base0 == IF day \in {"Tuesday", "Wednesday", "Thursday"} THEN Dec(7000)
                 ELSE IF day \in {"Monday", "Friday"} THEN Dec(6000)
                 ELSE Dec(5000)
        hour == HourOfClock(start_time)
        base == IF 9 <= hour /\ hour <= 11 THEN base0 + Dec(1500)
                ELSE IF 13 <= hour /\ hour <= 15 THEN base0 + Dec(1000)
                ELSE IF 19 <= hour /\ hour <= 21 THEN base0 + Dec(500)
                ELSE base0
    IN  IntMin(base, Dec(9500))

\* The dict appended for the d-th day and the w-th time range.
NewSlot(d, w) ==
    LET start == time_ranges[w][1]
        end == time_ranges[w][2]
    IN  [day |-> days[d],
         time_range |-> start \o "-" \o end,
         start_hour |-> HourOfClock(start),
         base_engagement |-> CalculateBaseScore(days[d], start),
         sentiment_adjustment |-> 0]

\* A catalog whose inner loop stays at the first time range.
InitializeTimeSlotsOneWindow ==
    [r \in Refs |-> NewSlot(((r - 1) \div Len(time_ranges)) + 1, 1)]

\* The heap after _initialize_time_slots: object r is the slot appended r-th
\* (outer loop over days, inner loop over time_ranges).
InitializeTimeSlots ==
    [r \in Refs |-> NewSlot(((r - 1) \div Len(time_ranges)) + 1,
                            ((r - 1) % Len(time_ranges)) + 1)]

\* The list _initialize_time_slots returns: the references in append order.
InitialTimeSlotList == [i \in 1..NumSlots |-> i]

\* ---------------------------------------------------- history adjustment

HasKey(d, k) == k \in DOMAIN d

\* pd.DataFrame(list of dicts)[col]: the column, NaN where a record lacks
\* the key; the column exists when some record has the key.
HasColumn(engagement_history, col) ==
    \E i \in 1..Len(engagement_history) : HasKey(engagement_history[i], col)

Cell(engagement_history, i, col) ==
    IF HasKey(engagement_history[i], col)
    THEN F(engagement_history[i][col])
    ELSE NaN

\* The filter with < in place of <=.
SimilarTimeStrict(engagement_history, i, current_hour) ==
    LET h == Cell(engagement_history, i, "hour_of_day")
    IN  ~h.nan /\ Abs(h.val - current_hour) < 2

\* abs(df['hour_of_day'] - current_hour) <= 2, row i (NaN compares false).
SimilarTime(engagement_history, i, current_hour) ==
    LET h == Cell(engagement_history, i, "hour_of_day")
    IN  ~h.nan /\ Abs(h.val - current_hour) <= 2

RECURSIVE SumOver(_, _, _)
SumOver(engagement_history, rows, col) ==
    IF rows = {} THEN 0
    ELSE LET i == CHOOSE j \in rows : TRUE
         IN  engagement_history[i][col]
               + SumOver(engagement_history, rows \ {i}, col)

\* Series.mean() with skipna: the mean of the non-NaN cells, NaN if none.
SeriesMean(engagement_history, rows, col) ==
    LET present == {i \in rows : HasKey(engagement_history[i], col)}
    IN  IF present = {} THEN NaN
        ELSE F(SumOver(engagement_history, present, col)
                 \div Cardinality(present))

\* The try block of _calculate_history_adjustment: [exc, val], exc when an
\* exception (the KeyError of a missing column) leaves the block.
HistoryTryBlock(engagement_history, current_hour) ==
    IF ~HasColumn(engagement_history, "hour_of_day")
    THEN [exc |-> TRUE, val |-> NaN]
    ELSE LET similar_times ==
                 {i \in 1..Len(engagement_history) :
                    SimilarTime(engagement_history, i, current_hour)}
         IN  IF similar_times # {}
             THEN IF ~HasColumn(engagement_history, "estimated_engagement")
                  THEN [exc |-> TRUE, val |-> NaN]
                  ELSE [exc |-> FALSE,
                        val |-> SeriesMean(engagement_history, similar_times,
                                           "estimated_engagement")]
             ELSE [exc |-> FALSE, val |-> F(Dec(5000))]

\* The method without its except clause: an exception of the try block
\* leaves the method.
CalculateHistoryAdjustmentNoExcept(engagement_history, current_hour) ==
    IF Len(engagement_history) = 0
    THEN [exc |-> FALSE, val |-> F(0)]
    ELSE HistoryTryBlock(engagement_history, current_hour)

\* _calculate_history_adjustment: [exc, val]; the except clause turns every
\* exception of the try block into 0.5.
CalculateHistoryAdjustment(engagement_history, current_hour) ==
    IF Len(engagement_history) = 0
    THEN [exc |-> FALSE, val |-> F(0)]
    ELSE LET t == HistoryTryBlock(engagement_history, current_hour)
         IN  IF t.exc THEN [exc |-> FALSE, val |-> F(Dec(5000))] ELSE t

\* ------------------------------------------------------------ the scorer

\* sentiment_results.get('overall_sentiment', 0)
OverallSentiment(sentiment_results) ==
    IF HasKey(sentiment_results, "overall_sentiment")
    THEN sentiment_results.overall_sentiment
    ELSE 0

\* overall_sentiment * 0.2
SentimentAdjustment(sentiment_results) ==
    Scale(OverallSentiment(sentiment_results), 2, 10)

\* `if engagement_history:` is false for None and for the empty list.
Truthy(engagement_history) ==
    ~engagement_history.is_none /\ Len(engagement_history.items) > 0

\* Lines 91-93 with 0.5 as the value of an absent history.
HistoryAdjustmentDefaultHalf(engagement_history, current_hour) ==
    IF Truthy(engagement_history)
    THEN CalculateHistoryAdjustment(engagement_history.items, current_hour)
    ELSE [exc |-> FALSE, val |-> F(Dec(5000))]

\* Lines 91-93: [exc, val].
HistoryAdjustment(engagement_history, current_hour) ==
    IF Truthy(engagement_history)
    THEN CalculateHistoryAdjustment(engagement_history.items, current_hour)
    ELSE [exc |-> FALSE, val |-> F(0)]

\* The blend with the sentiment adjustment at full weight (no * 0.3).
FinalScoreFullSentiment(slot, sentiment_adjustment, history_adjustment, jitter) ==
    FAdd(F(Scale(slot.base_engagement, 6, 10) + sentiment_adjustment),
         FAdd(IF history_adjustment.nan THEN NaN
              ELSE F(Scale(history_adjustment.val, 1, 10)),
              F(jitter)))

\* The blend with base_engagement at full weight (no * 0.6).
FinalScoreFullBase(slot, sentiment_adjustment, history_adjustment, jitter) ==
    FAdd(F(slot.base_engagement + Scale(sentiment_adjustment, 3, 10)),
         FAdd(IF history_adjustment.nan THEN NaN
              ELSE F(Scale(history_adjustment.val, 1, 10)),
              F(jitter)))

\* The blend without the history term.
FinalScoreNoHistory(slot, sentiment_adjustment, history_adjustment, jitter) ==
    FAdd(F(Scale(slot.base_engagement, 6, 10)
             + Scale(sentiment_adjustment, 3, 10)),
         F(jitter))

\* Lines 98-103: the raw score of a slot, before the clamp.
FinalScore(slot, sentiment_adjustment, history_adjustment, jitter) ==
    FAdd(F(Scale(slot.base_engagement, 6, 10)
             + Scale(sentiment_adjustment, 3, 10)),
         FAdd(IF history_adjustment.nan THEN NaN
              ELSE F(Scale(history_adjustment.val, 1, 10)),
              F(jitter)))

\* The clamp without its floor: min(0.99, final_score).
ClampScoreNoFloor(final_score) == PyMin(F(Dec(9900)), final_score)

\* max(0.1, min(0.99, final_score))
ClampScore(final_score) ==
    PyMax(F(Dec(1000)), PyMin(F(Dec(9900)), final_score))

\* dict[key] = value
SetItem(d, key, value) == (key :> value) @@ d

\* A loop body that keeps a score the dict already has
\* (slot.setdefault('score', ...)).
ScoreSlotSetDefault(slot, sentiment_adjustment, final_score) ==
    IF "score" \in DOMAIN slot
    THEN SetItem(slot, "sentiment_adjustment", sentiment_adjustment)
    ELSE SetItem(SetItem(slot, "score",
                         PyMax(F(Dec(1000)), PyMin(F(Dec(9900)), final_score))),
                 "sentiment_adjustment", sentiment_adjustment)

\* Lines 106-107 on one slot dict.
ScoreSlot(slot, sentiment_adjustment, final_score) ==
    SetItem(SetItem(slot, "score", ClampScore(final_score)),
            "sentiment_adjustment", sentiment_adjustment)

\* The loop with the history term in its first iteration only.
FinalScoresHistoryFirstOnly(h, recommended_slots, sentiment_adjustment, history_adjustment, jitter) ==
    Table([i \in 1..Len(recommended_slots) |->
             FinalScore(h[recommended_slots[i]], sentiment_adjustment,
                        IF i = 1 THEN history_adjustment ELSE F(0),
                        jitter[i])])

\* The final_score of each iteration of the loop of lines 96-107; jitter[i]
\* is the i-th draw of random.uniform(-0.05, 0.05).  No iteration writes a
\* base_engagement, so each reads the one of h.
FinalScores(h, recommended_slots, sentiment_adjustment, history_adjustment, jitter) ==
    Table([i \in 1..Len(recommended_slots) |->
             FinalScore(h[recommended_slots[i]], sentiment_adjustment,
                        history_adjustment, jitter[i])])

\* The loop of lines 96-107: the heap it leaves.  Each iteration overwrites
\* the score and the sentiment_adjustment of the dict it visits, so a dict
\* ends as its last visit leaves it.
ScoreLoop(h, recommended_slots, sentiment_adjustment, final_scores) ==
    Table([r \in DOMAIN h |->
       LET visits == {i \in 1..Len(recommended_slots) :
                        recommended_slots[i] = r}
       IN  IF visits = {} THEN h[r]
           ELSE LET last == CHOOSE i \in visits : \A j \in visits : j <= i
                IN  ScoreSlot(h[r], sentiment_adjustment, final_scores[last])])

\* recommended_slots.sort(key=lambda x: x['score'], reverse=True), the keys
\* being already read (keys[r] is the key of object r).  The sort compares
\* keys with < only and is stable: the element at j ends before the element
\* at i when its key is greater, or when neither key is less than the other
\* and j < i.
\* The order of a sort without reverse=True.
SortsBeforeAscending(list, keys, j, i) ==
    \/ FLt(keys[list[j]], keys[list[i]])
    \/ /\ j < i
       /\ ~FLt(keys[list[i]], keys[list[j]])

\* The order of a sort that puts the later of two equal keys first.
SortsBeforeTiesReversed(list, keys, j, i) ==
    \/ FLt(keys[list[i]], keys[list[j]])
    \/ /\ j > i
       /\ ~FLt(keys[list[j]], keys[list[i]])

SortsBefore(list, keys, j, i) ==
    \/ FLt(keys[list[i]], keys[list[j]])
    \/ /\ j < i
       /\ ~FLt(keys[list[j]], keys[list[i]])

SortByKeys(list, keys) ==
    LET n == Len(list)
        placed == {<<Cardinality({j \in 1..n : SortsBefore(list, keys, j, i)})
                       + 1, list[i]>> : i \in 1..n}
    IN  [k \in 1..n |-> (CHOOSE pr \in placed : pr[1] = k)[2]]

\* round(x, 3): the nearest multiple of 0.001, a tie to the even one.
Round3(x) ==
    IF x.nan THEN x
    ELSE LET step == Dec(10)
             q == x.val \div step
             r == x.val % step
         IN  F(step * (IF 2 * r < step THEN q
                       ELSE IF 2 * r > step THEN q + 1
                       ELSE IF q % 2 = 0 THEN q ELSE q + 1))

GetRecommendationText(score) ==
    IF FGe(score, F(Dec(8000)))
    THEN "Excellent time to post - high expected engagement"
    ELSE IF FGe(score, F(Dec(7000)))
    THEN "Good time to post - above average engagement expected"
    ELSE IF FGe(score, F(Dec(6000)))
    THEN "Moderate time - average engagement expected"
    ELSE "Lower priority - consider other time slots first"

\* The record with the text chosen by the rounded score.
TopSlotRecordRounded(slot) ==
    [day |-> slot.day,
     time |-> slot.time_range,
     score |-> Round3(slot.score),
     recommendation |-> GetRecommendationText(Round3(slot.score))]

\* Lines 115-120: the record appended for one slot dict.
TopSlotRecord(slot) ==
    [day |-> slot.day,
     time |-> slot.time_range,
     score |-> Round3(slot.score),
     recommendation |-> GetRecommendationText(slot.score)]

\* recommended_slots[:5]
TopCount == 5

\* A slice one short: recommended_slots[:4].
FirstFour(list) == SubSeq(list, 1, IntMin(TopCount - 1, Len(list)))

FirstFive(list) == SubSeq(list, 1, IntMin(TopCount, Len(list)))

\* Lines 113-122.
TopSlots(h, recommended_slots) ==
    LET first == FirstFive(recommended_slots)
    IN  [i \in 1..Len(first) |-> TopSlotRecord(h[first[i]])]

\* ------------------------------------------------------------------ state

\* The list objects: self.time_slots, the list the sequential call's
\* recommended_slots names, and the one of each thread's call.
SelfList == "time_slots"
LocalList == "recommended_slots"
Threads == {1, 2}
ThreadList(t) == IF t = 1 THEN "recommended_slots_1" ELSE "recommended_slots_2"
ListObjects == {SelfList, LocalList} \cup {ThreadList(t) : t \in Threads}

\* No copy: recommended_slots names the list object self.time_slots.
NoCopy(fresh) == SelfList

\* self.time_slots.copy() returns a list object of its own.
CopyOf(fresh) == fresh

VARIABLES
    lists,      \* list object -> the sequence of slot references it holds
    heap,       \* slot reference -> the slot dict
    calls,      \* sequential calculate_optimal_times calls made so far
    call,       \* the arguments of the last sequential call
    locals,     \* its sentiment_adjustment and history_adjustment, and the
                \* final_score of each iteration of its loop
    outcome,    \* "none" before any call, then "returned" or "raised"
    top_slots,  \* the list the last sequential call returned
    hist_call,  \* the last direct call of _calculate_history_adjustment
    thr,        \* thread -> the position and locals of its call
    running,    \* the thread that took the last step (0: none yet)
    switches,   \* preemptions so far
    other,      \* a second PostingScheduler: whether it is built, and the
                \* slot dicts of its time_slots
    assistant_history,  \* SocialMediaAssistant.engagement_history
    runs,       \* run_analysis calls made, and those that returned the
                \* result of their pipeline
    last_run,   \* the last run_analysis call: what it met and returned
    files       \* the data directory: the rows of engagement_history.csv
                \* and the number of analysis_*.json files

seqVars == <<calls, call, locals, outcome, top_slots>>
thrVars == <<thr, running, switches>>
appVars == <<assistant_history, runs, last_run, files>>
vars == <<lists, heap, calls, call, locals, outcome, top_slots, hist_call,
         thr, running, switches, other, assistant_history, runs, last_run,
         files>>

time_slots == lists[SelfList]

\* The arguments of a call, with the values the call draws from its
\* environment: the wall-clock hour and the random.uniform draws.
Args(sentiment_results, engagement_history, current_hour, jitter) ==
    [sentiment_results |-> sentiment_results,
     engagement_history |-> engagement_history,
     current_hour |-> current_hour,
     jitter |-> jitter]

\* The keys the sort reads: x['score'] of every object.
SortKeys(h) == Table([r \in DOMAIN h |-> h[r].score])

\* One whole call of calculate_optimal_times on the list objects ls and the
\* heap h, its recommended_slots naming list object `fresh`: the list objects
\* and the heap it leaves, and what it returns.
Run(ls, h, fresh, a) ==
    LET recommended_slots == CopyOf(fresh)
        ls1 == [ls EXCEPT ![recommended_slots] = ls[SelfList]]
        sentiment_adjustment == SentimentAdjustment(a.sentiment_results)
        history_adjustment ==
            HistoryAdjustment(a.engagement_history, a.current_hour)
        final_scores == FinalScores(h, ls1[recommended_slots],
                                    sentiment_adjustment,
                                    history_adjustment.val, a.jitter)
        h1 == ScoreLoop(h, ls1[recommended_slots], sentiment_adjustment,
                        final_scores)
        ls2 == [ls1 EXCEPT ![recommended_slots] =
                  SortByKeys(ls1[recommended_slots], SortKeys(h1))]
    IN  IF history_adjustment.exc
        THEN [outcome |-> "raised", lists |-> ls1, heap |-> h,
              top_slots |-> <<>>,
              locals |-> [sentiment_adjustment |-> sentiment_adjustment,
                          history_adjustment |-> NaN,
                          final_score |-> <<>>]]
        ELSE [outcome |-> "returned", lists |-> ls2, heap |-> h1,
              top_slots |-> TopSlots(h1, ls2[recommended_slots]),
              locals |-> [sentiment_adjustment |-> sentiment_adjustment,
                          history_adjustment |-> history_adjustment.val,
                          final_score |-> final_scores]]

\* ----------------------------------------------------------------- inputs

\* Sentiment summaries: without the key, and with overall_sentiment 0, -1.0,
\* 1.0 and (outside the conventional range) -8.0.
NoSentimentKey == [positive_topics |-> "topics"]

SentimentSummaries ==
    {NoSentimentKey}
      \cup {[overall_sentiment |-> Dec(s)] : s \in {0, -10000, 10000, -80000}}

\* The wall-clock hours datetime.now().hour takes in the model.
CurrentHours == {12, 23}

\* History records: well-formed ones at hours 12, 14 and 0, two with a large
\* engagement (5.0 and 2.298), one without estimated_engagement, one without
\* hour_of_day.
HistoryRecords ==
    {[hour_of_day |-> 12, estimated_engagement |-> Dec(10000)],
     [hour_of_day |-> 14, estimated_engagement |-> Dec(6000)],
     [hour_of_day |-> 0, estimated_engagement |-> Dec(10000)],
     [hour_of_day |-> 12, estimated_engagement |-> Dec(50000)],
     [hour_of_day |-> 12, estimated_engagement |-> Dec(22980)],
     [hour_of_day |-> 12],
     [estimated_engagement |-> Dec(8000)]}

RECURSIVE SeqsUpTo(_, _)
SeqsUpTo(S, n) ==
    IF n = 0 THEN {<<>>}
    ELSE LET shorter == SeqsUpTo(S, n - 1)
         IN  shorter \cup {Append(q, x) : q \in shorter, x \in S}

None == [is_none |-> TRUE, items |-> <<>>]
List(items) == [is_none |-> FALSE, items |-> items]

\* The histories of a first call: None and every list of at most MaxHist
\* records.
Histories == {None} \cup {List(q) : q \in SeqsUpTo(HistoryRecords, MaxHist)}

\* The draws of random.uniform(-0.05, 0.05) of one call: pattern p gives the
\* i-th slot the value JitterValues[(p * i) mod Len + 1].
JitterValues == <<Dec(0), Dec(-500), Dec(1), Dec(500), Dec(-250)>>

Jitter(p) ==
    [i \in 1..NumSlots |-> JitterValues[((p * i) % Len(JitterValues)) + 1]]

JitterPatterns == 0..MaxJitterPattern

\* The inputs of the calls of a sequence of calls.
SeqSentimentSummaries ==
    {NoSentimentKey, [overall_sentiment |-> Dec(10000)],
     [overall_sentiment |-> Dec(-80000)]}

SeqHistories ==
    {None, List(<<>>),
     List(<<[hour_of_day |-> 12, estimated_engagement |-> Dec(10000)]>>),
     List(<<[hour_of_day |-> 12, estimated_engagement |-> Dec(50000)]>>),
     List(<<[hour_of_day |-> 12]>>),
     List(<<[estimated_engagement |-> Dec(8000)]>>)}

\* The inputs of the two concurrent calls.
ThreadArgs ==
    {Args([overall_sentiment |-> Dec(10000)], None, 12, Jitter(0)),
     Args([overall_sentiment |-> Dec(-10000)], None, 12, Jitter(1))}

\* ---------------------------------------------------------- the assistant

\* load_engagement_history at construction: the rows of an
\* engagement_history.csv with one row (the fields the scheduler reads).
LoadedHistory == <<[hour_of_day |-> 12, estimated_engagement |-> Dec(6000)]>>

\* load_sample_data: four sample tweets.
LoadSampleData == <<"sample 1", "sample 2", "sample 3", "sample 4">>

\* What fetch_trending_posts returns: no tweet (no client, an API error, no
\* match) or the processed tweets.
FetchResults ==
    {<<>>, <<"tweet 1", "tweet 2", "tweet 3", "tweet 4", "tweet 5">>}

\* What analyze_sentiment_batch returns for the tweets: a summary with
\* overall_sentiment 1.0 and two positive topics, or with overall_sentiment 0
\* and no topic.
AnalyzerResults ==
    {[overall_sentiment |-> Dec(10000),
      positive_topics |-> <<"growth", "innovation">>,
      negative_topics |-> <<>>],
     [overall_sentiment |-> 0,
      positive_topics |-> <<>>,
      negative_topics |-> <<>>]}

\* The steps of the try block of run_analysis whose call can raise: the
\* fetch, the sentiment analysis, the scheduling (a non-numeric
\* overall_sentiment at scheduler.py line 88), the content generation (a
\* hashtag of None) and the history update before its append; "none" when
\* no step raises.
StepOrder == <<"fetch", "sentiment", "schedule", "content", "update">>
StepFailures == {"none"} \cup {StepOrder[i] : i \in 1..Len(StepOrder)}

StepIndex(step) == CHOOSE i \in 1..Len(StepOrder) : StepOrder[i] = step

\* The run gets past `step`: no step up to it raises.
Passes(raises, step) ==
    raises = "none" \/ StepIndex(raises) > StepIndex(step)

\* The draws of random.uniform(0.5, 1.0) for estimated_engagement.
EngagementDraws == {Dec(5000), Dec(10000)}

\* The file writes of a run that fail (disk full, no permission): none, the
\* analysis file, or the history file.
WriteFailures == {{}, {"analysis"}, {"history"}}

\* generate_content_ideas: an idea for each of the first two positive
\* topics (sentiment above 0.3) or negative topics (below -0.3), else the
\* trend idea; then the two general ideas; at most 5.
GenerateContentIdeas(sentiment_results) ==
    LET overall_sentiment == OverallSentiment(sentiment_results)
        positive_topics == sentiment_results.positive_topics
        negative_topics == sentiment_results.negative_topics
        ideas == IF overall_sentiment > Dec(3000)
                 THEN [i \in 1..IntMin(2, Len(positive_topics)) |->
                         "Share success stories about " \o positive_topics[i]]
                 ELSE IF overall_sentiment < Dec(-3000)
                 THEN [i \in 1..IntMin(2, Len(negative_topics)) |->
                         "Address challenges in " \o negative_topics[i]]
                 ELSE <<"Provide analysis of current trends">>
        all == ideas \o <<"Post industry statistics with engaging visuals",
                          "Share customer testimonials or success stories">>
    IN  SubSeq(all, 1, IntMin(5, Len(all)))

\* save_analysis_results without its except clause: a failed write raises.
SaveAnalysisResultsNoExcept(fs, failures) ==
    IF "analysis" \in failures
    THEN [raised |-> TRUE, files |-> fs]
    ELSE [raised |-> FALSE,
          files |-> [fs EXCEPT !.analyses = @ + 1]]

\* save_analysis_results: [raised, files]; a failed write is printed and
\* swallowed.
SaveAnalysisResults(fs, failures) ==
    IF "analysis" \in failures
    THEN [raised |-> FALSE, files |-> fs]
    ELSE [raised |-> FALSE,
          files |-> [fs EXCEPT !.analyses = @ + 1]]

\* save_engagement_history: [raised, files]; a failed write is swallowed.
SaveEngagementHistory(fs, history, failures) ==
    IF "history" \in failures
    THEN [raised |-> FALSE, files |-> fs]
    ELSE [raised |-> FALSE, files |-> [fs EXCEPT !.history = history]]

\* The entry _simulate_engagement_update builds (the fields the scheduler
\* reads).
NewEntry(current_hour, engagement) ==
    [hour_of_day |-> current_hour, estimated_engagement |-> engagement]

\* An update that appends its entry twice.
AppendEntryTwice(history, current_hour, engagement) ==
    Append(Append(history, NewEntry(current_hour, engagement)),
           NewEntry(current_hour, engagement))

\* self.engagement_history.append(new_entry)
AppendEntry(history, current_hour, engagement) ==
    Append(history, NewEntry(current_hour, engagement))

\* _get_demo_data: the fixed dict.
GetDemoData ==
    [tweets_analyzed |-> 8,
     sentiment_results |-> [overall_sentiment |-> Dec(6500)],
     optimal_times |->
         <<[day |-> "Tuesday", time |-> "10:00-11:00", score |-> F(Dec(8500))],
           [day |-> "Wednesday", time |-> "14:00-15:00",
            score |-> F(Dec(7800))],
           [day |-> "Friday", time |-> "09:00-10:00", score |-> F(Dec(7200))]>>,
     content_suggestions |->
         <<"Share insights about business innovation trends",
           "Post about growth strategies for SMEs",
           "Discuss overcoming common business challenges">>,
     tweets_sample |-> <<"demo tweet 1", "demo tweet 2", "demo tweet 3">>]

\* ------------------------------------------------------------------- Init

NoArgs == Args(NoSentimentKey, None, 0, Jitter(0))

\* last_run before any run.
NoRun == [kind |-> "none", raised_at |-> "none", fetched |-> <<>>,
          tweets |-> <<>>, current_hour |-> 0, write_failures |-> {},
          history_before |-> <<>>, result |-> [none |-> TRUE]]

Idle == [pc |-> "idle", args |-> NoArgs, i |-> 0,
         sentiment_adjustment |-> 0, history_adjustment |-> F(0),
         top_slots |-> <<>>]

Init ==
    /\ lists = [l \in ListObjects |->
                  IF l = SelfList THEN InitialTimeSlotList ELSE <<>>]
    /\ heap = InitializeTimeSlots
    /\ calls = 0
    /\ call = NoArgs
    /\ locals = [sentiment_adjustment |-> 0, history_adjustment |-> F(0),
                 final_score |-> <<>>]
    /\ hist_call = [made |-> FALSE, engagement_history |-> <<>>,
                    current_hour |-> 0, outcome |-> "none", result |-> F(0)]
    /\ outcome = "none"
    /\ top_slots = <<>>
    /\ thr = [t \in Threads |-> Idle]
    /\ running = 0
    /\ switches = 0
    /\ other = [made |-> FALSE, time_slots |-> <<>>]
    /\ assistant_history = LoadedHistory
    /\ runs = [made |-> 0, completed |-> 0]
    /\ last_run = NoRun
    /\ files = [history |-> LoadedHistory, analyses |-> 0]

\* ------------------------------------------------------- sequential calls

\* One whole call of calculate_optimal_times.
CalculateOptimalTimes(a) ==
    \E res \in {Run(lists, heap, LocalList, a)} :
        /\ calls' = calls + 1
        /\ call' = a
        /\ locals' = res.locals
        /\ outcome' = res.outcome
        /\ lists' = res.lists
        /\ heap' = res.heap
        /\ top_slots' = res.top_slots
        /\ UNCHANGED <<hist_call, thrVars, other, appVars>>

\* A call in a sequence of at most MaxCalls calls.
Call ==
    /\ calls < MaxCalls
    /\ \E sentiment_results \in SeqSentimentSummaries,
          engagement_history \in SeqHistories,
          current_hour \in CurrentHours,
          p \in JitterPatterns :
           CalculateOptimalTimes(Args(sentiment_results, engagement_history,
                                      current_hour, Jitter(p)))

\* The first call on a new scheduler.
FirstCall ==
    /\ calls = 0
    /\ ~hist_call.made
    /\ \E sentiment_results \in SentimentSummaries,
          engagement_history \in Histories,
          current_hour \in CurrentHours,
          p \in JitterPatterns :
           CalculateOptimalTimes(Args(sentiment_results, engagement_history,
                                      current_hour, Jitter(p)))

\* The time_slots of a scheduler whose base scores drift with the calls the
\* process has made.
NewTimeSlotsDrifting ==
    [i \in 1..NumSlots |->
       [InitializeTimeSlots[InitialTimeSlotList[i]]
          EXCEPT !.base_engagement = @ + calls]]

\* Lines 14-16 for another scheduler object: the dicts of its time_slots,
\* in list order.
NewTimeSlots ==
    [i \in 1..NumSlots |-> InitializeTimeSlots[InitialTimeSlotList[i]]]

\* PostingScheduler(): a second scheduler is built, at any moment.
Construct ==
    /\ ~other.made
    /\ other' = [made |-> TRUE, time_slots |-> NewTimeSlots]
    /\ UNCHANGED <<lists, heap, seqVars, hist_call, thrVars, appVars>>

Next == Call \/ Construct

Spec == Init /\ [][Next]_vars

\* A call of _calculate_history_adjustment itself, on a list.
HistoryCall ==
    /\ calls = 0
    /\ ~hist_call.made
    /\ \E engagement_history \in Histories \ {None},
          current_hour \in CurrentHours :
         \E res \in {CalculateHistoryAdjustment(engagement_history.items,
                                                current_hour)} :
           hist_call' = [made |-> TRUE,
                         engagement_history |-> engagement_history.items,
                         current_hour |-> current_hour,
                         outcome |-> IF res.exc THEN "raised" ELSE "returned",
                         result |-> res.val]
    /\ UNCHANGED <<lists, heap, seqVars, thrVars, other, appVars>>

NextFirst == FirstCall \/ HistoryCall

SpecFirst == Init /\ [][NextFirst]_vars

\* ----------------------------------------------------------- run_analysis

\* What a run_analysis call leaves and returns, given what its steps meet:
\* the fetched tweets, the step that raises, the analyzer's summary, the
\* wall-clock hour, the scheduler call `sched` (a Run on the state of the
\* scheduler), the engagement draw and the file writes that fail.
RunAnalysisOutcome(fetched, raises, sentiment_results, current_hour, sched, engagement, failures) ==
    LET tweets == IF Len(fetched) = 0 THEN LoadSampleData ELSE fetched
        scheduled == Passes(raises, "schedule") /\ sched.outcome = "returned"
        saved == IF Passes(raises, "content")
                 THEN SaveAnalysisResults(files, failures)
                 ELSE [raised |-> FALSE, files |-> files]
        appended == Passes(raises, "update") /\ ~saved.raised
        history == IF appended
                   THEN AppendEntry(assistant_history, current_hour,
                                    engagement)
                   ELSE assistant_history
        written == IF appended
                   THEN SaveEngagementHistory(saved.files, history, failures)
                   ELSE saved
        completed == appended /\ ~written.raised
    IN  [kind |-> IF completed THEN "pipeline" ELSE "demo",
         raised_at |-> raises,
         fetched |-> IF Passes(raises, "fetch") THEN fetched ELSE <<>>,
         tweets |-> IF Passes(raises, "fetch") THEN tweets ELSE <<>>,
         current_hour |-> IF scheduled THEN current_hour ELSE 0,
         write_failures |->
             IF appended THEN failures
             ELSE IF Passes(raises, "content")
             THEN failures \cap {"analysis"}
             ELSE {},
         called |-> Passes(raises, "sentiment"),
         scheduled |-> scheduled,
         engagement_history |-> history,
         files |-> written.files,
         result |->
             IF completed
             THEN [tweets_analyzed |-> Len(tweets),
                   sentiment_results |-> sentiment_results,
                   optimal_times |-> sched.top_slots,
                   content_suggestions |->
                       GenerateContentIdeas(sentiment_results),
                   tweets_sample |-> SubSeq(tweets, 1, IntMin(3, Len(tweets)))]
             ELSE GetDemoData]

\* One whole run_analysis call.
RunAnalysis ==
    /\ runs.made < MaxRuns
    /\ \E sentiment_results \in AnalyzerResults,
          current_hour \in CurrentHours :
         \E a \in {Args(sentiment_results, List(assistant_history),
                        current_hour, Jitter(MaxJitterPattern))} :
           \E sched \in {Run(lists, heap, LocalList, a)} :
             \E fetched \in FetchResults,
                raises \in StepFailures,
                engagement \in EngagementDraws,
                failures \in WriteFailures :
               \E out \in {RunAnalysisOutcome(fetched, raises,
                                               sentiment_results, current_hour,
                                               sched, engagement, failures)} :
                 /\ assistant_history' = out.engagement_history
                 /\ files' = out.files
                 /\ runs' = [made |-> runs.made + 1,
                             completed |-> runs.completed
                                 + (IF out.kind = "pipeline" THEN 1 ELSE 0)]
                 /\ last_run' = [kind |-> out.kind,
                                 raised_at |-> out.raised_at,
                                 fetched |-> out.fetched,
                                 tweets |-> out.tweets,
                                 current_hour |-> out.current_hour,
                                 write_failures |-> out.write_failures,
                                 history_before |-> assistant_history,
                                 result |-> out.result]
                 /\ IF out.scheduled
                    THEN /\ calls' = calls + 1
                         /\ call' = a
                         /\ locals' = sched.locals
                         /\ outcome' = sched.outcome
                         /\ lists' = sched.lists
                         /\ heap' = sched.heap
                         /\ top_slots' = sched.top_slots
                    ELSE IF out.called /\ raises = "schedule"
                    THEN /\ calls' = calls + 1
                         /\ outcome' = "raised"
                         /\ top_slots' = <<>>
                         /\ lists' = [lists EXCEPT
                                        ![LocalList] = lists[SelfList]]
                         /\ UNCHANGED <<call, locals, heap>>
                    ELSE UNCHANGED <<lists, heap, seqVars>>
    /\ UNCHANGED <<hist_call, thrVars, other>>

NextRun == RunAnalysis

SpecRun == Init /\ [][NextRun]_vars

\* ------------------------------------------------------- concurrent calls

\* Two threads each make one call on the same scheduler.  A thread's steps:
\* lines 84-93 (the copy and the two adjustments, which write nothing
\* shared), one iteration of the loop of lines 96-107, the sort of line 110
\* (its key reads taken together), one iteration of the loop of lines
\* 114-120.  A step of a thread other than the one that ran last, while that
\* one has not returned, is a preemption.

Preempts(t) == running \notin {0, t} /\ thr[running].pc # "done"

Schedule(t) ==
    /\ Preempts(t) => switches < MaxSwitches
    /\ running' = t
    /\ switches' = IF Preempts(t) THEN switches + 1 ELSE switches

Begin(t) ==
    /\ thr[t].pc = "idle"
    /\ Schedule(t)
    /\ \E a \in ThreadArgs :
         \E recommended_slots \in {CopyOf(ThreadList(t))} :
           /\ lists' = [lists EXCEPT ![recommended_slots] = lists[SelfList]]
           /\ thr' = [thr EXCEPT ![t] =
                [pc |-> "score", args |-> a, i |-> 1,
                 sentiment_adjustment |->
                     SentimentAdjustment(a.sentiment_results),
                 history_adjustment |->
                     HistoryAdjustment(a.engagement_history,
                                       a.current_hour).val,
                 top_slots |-> <<>>]]
    /\ UNCHANGED <<heap, seqVars, hist_call, other, appVars>>

ScoreStep(t) ==
    /\ thr[t].pc = "score"
    /\ Schedule(t)
    /\ LET recommended_slots == lists[CopyOf(ThreadList(t))]
           i == thr[t].i
       IN  IF i <= Len(recommended_slots)
           THEN LET r == recommended_slots[i]
                IN  /\ heap' = [heap EXCEPT ![r] =
                          ScoreSlot(heap[r], thr[t].sentiment_adjustment,
                                    FinalScore(heap[r],
                                               thr[t].sentiment_adjustment,
                                               thr[t].history_adjustment,
                                               thr[t].args.jitter[i]))]
                    /\ thr' = [thr EXCEPT ![t].i = i + 1]
           ELSE /\ heap' = heap
                /\ thr' = [thr EXCEPT ![t].pc = "sort"]
    /\ UNCHANGED <<lists, seqVars, hist_call, other, appVars>>

SortStep(t) ==
    /\ thr[t].pc = "sort"
    /\ Schedule(t)
    /\ \E recommended_slots \in {CopyOf(ThreadList(t))} :
         lists' = [lists EXCEPT ![recommended_slots] =
                     SortByKeys(lists[recommended_slots], SortKeys(heap))]
    /\ thr' = [thr EXCEPT ![t].pc = "top", ![t].i = 1]
    /\ UNCHANGED <<heap, seqVars, hist_call, other, appVars>>

TopStep(t) ==
    /\ thr[t].pc = "top"
    /\ Schedule(t)
    /\ LET first == FirstFive(lists[CopyOf(ThreadList(t))])
           i == thr[t].i
       IN  IF i <= Len(first)
           THEN thr' = [thr EXCEPT
                   ![t].top_slots = Append(@, TopSlotRecord(heap[first[i]])),
                   ![t].i = i + 1]
           ELSE thr' = [thr EXCEPT ![t].pc = "done"]
    /\ UNCHANGED <<lists, heap, seqVars, hist_call, other, appVars>>

NextConc ==
    \E t \in Threads :
        \/ Begin(t)
        \/ ScoreStep(t)
        \/ SortStep(t)
        \/ TopStep(t)

SpecConc == Init /\ [][NextConc]_vars

\* ----------------------------------------------------------------- claims

Returned == outcome = "returned"

WeekdayNames == {"Monday", "Tuesday", "Wednesday", "Thursday", "Friday",
                 "Saturday", "Sunday"}

WindowLabels == {"09:00-11:00", "11:00-13:00", "13:00-15:00", "15:00-17:00",
                 "17:00-19:00", "19:00-21:00"}

\* C1: every call that returns, whatever the sentiment summary and the
\* history and however many calls came before it, returns a list of exactly
\* 5 records, each with the keys day, time, score and recommendation.
C1_ExactlyFiveRecords ==
    Returned =>
        /\ Len(top_slots) = 5
        /\ \A i \in 1..Len(top_slots) :
             DOMAIN top_slots[i] = {"day", "time", "score", "recommendation"}

\* C1 witness: a second call on the same scheduler, with a non-empty
\* history, has returned its 5 records.
C1_Witness ==
    /\ calls = 2
    /\ Returned
    /\ Truthy(call.engagement_history)
    /\ Len(top_slots) = 5

\* C2: every returned record has a rounded score in [0.1, 0.99], one of the
\* 7 weekday names as its day and one of the 6 window labels as its time.
C2_RecordsInRange ==
    Returned =>
        \A i \in 1..Len(top_slots) :
            /\ ~top_slots[i].score.nan
            /\ Dec(1000) <= top_slots[i].score.val
            /\ top_slots[i].score.val <= Dec(9900)
            /\ top_slots[i].day \in WeekdayNames
            /\ top_slots[i].time \in WindowLabels

\* C2 witness: a call whose first slot had a final_score above 0.99 returned
\* it with the score 0.99.
C2_Witness ==
    /\ Returned
    /\ \E i \in 1..Len(locals.final_score) :
         /\ ~locals.final_score[i].nan
         /\ locals.final_score[i].val > Dec(9900)
         /\ heap[i].day = top_slots[1].day
         /\ heap[i].time_range = top_slots[1].time
    /\ top_slots[1].score.val = Dec(9900)

\* The slot dict a returned record reports: the one with its day and time.
SlotOfRecord(rec) ==
    CHOOSE r \in Refs :
        heap[r].day = rec.day /\ heap[r].time_range = rec.time

ReportedSlots == {SlotOfRecord(top_slots[i]) : i \in 1..Len(top_slots)}

\* C3: the returned list is non-increasing by score (the rounded scores it
\* reports and the scores of the slots it reports), and the slots it reports
\* are 5 distinct slots none of which scored less than a slot it leaves out.
C3_SortedTopFive ==
    Returned =>
        /\ \A i \in 1..(Len(top_slots) - 1) :
             /\ top_slots[i].score.val >= top_slots[i + 1].score.val
             /\ heap[SlotOfRecord(top_slots[i])].score.val
                  >= heap[SlotOfRecord(top_slots[i + 1])].score.val
        /\ \A i \in 1..Len(top_slots) :
             top_slots[i].score = Round3(heap[SlotOfRecord(top_slots[i])].score)
        /\ Cardinality(ReportedSlots) = 5
        /\ \A r \in ReportedSlots, q \in Refs \ ReportedSlots :
             heap[r].score.val >= heap[q].score.val

\* C3 witness: a second call returned records of different scores and left
\* out a slot that scored less than all of them.
C3_Witness ==
    /\ calls = 2
    /\ Returned
    /\ top_slots[1].score.val > top_slots[5].score.val
    /\ \E q \in Refs \ ReportedSlots :
         heap[q].score.val < heap[SlotOfRecord(top_slots[5])].score.val

\* C4 (as claimed): after any sequence of calls every slot dict of
\* self.time_slots has exactly the keys and values initialization gave it.
C4_TemplateUntouched ==
    /\ Len(time_slots) = NumSlots
    /\ \A i \in 1..Len(time_slots) :
         heap[time_slots[i]] = InitializeTimeSlots[i]

\* What a call returns when it runs alone on a new scheduler.
RunAlone(a) ==
    Run([l \in ListObjects |->
           IF l = SelfList THEN InitialTimeSlotList ELSE <<>>],
        InitializeTimeSlots, LocalList, a).top_slots

\* C5 (as claimed): under every interleaving, a call that has returned has
\* returned the list it returns when run alone with its own arguments and
\* random draws.
C5_ConcurrentCallsIsolated ==
    \A t \in Threads :
        thr[t].pc = "done" => thr[t].top_slots = RunAlone(thr[t].args)

\* A history record that lacks hour_of_day or estimated_engagement.
Malformed(rec) ==
    ~HasKey(rec, "hour_of_day") \/ ~HasKey(rec, "estimated_engagement")

\* C6: no call raises: a call of calculate_optimal_times, with or without
\* the overall_sentiment key and with a history that is None, empty,
\* well-formed or malformed, returns its 5 records, and a direct call of
\* _calculate_history_adjustment returns too.
C6_NeverRaises ==
    /\ calls > 0 => (Returned /\ Len(top_slots) = 5)
    /\ hist_call.made => hist_call.outcome = "returned"

\* C6 witness: a call without the overall_sentiment key whose history has no
\* hour_of_day at all (the KeyError of the try block) has returned.
C6_Witness ==
    /\ calls = 1
    /\ Returned
    /\ ~HasKey(call.sentiment_results, "overall_sentiment")
    /\ Truthy(call.engagement_history)
    /\ ~HasColumn(call.engagement_history.items, "hour_of_day")
    /\ Len(top_slots) = 5

\* C7 (as claimed): a call whose non-empty history holds a malformed record
\* returns, and its history adjustment is 0.5.
C7_MalformedGivesHalf ==
    (/\ calls > 0
     /\ Truthy(call.engagement_history)
     /\ \E i \in 1..Len(call.engagement_history.items) :
          Malformed(call.engagement_history.items[i]))
    => (Returned /\ locals.history_adjustment = F(Dec(5000)))

\* overall_sentiment of the last call, 0 without the key.
CallSentiment ==
    IF "overall_sentiment" \in DOMAIN call.sentiment_results
    THEN call.sentiment_results.overall_sentiment
    ELSE 0

\* C8: _calculate_history_adjustment([]) returns 0.0, and a call with the
\* history None or [] has the history adjustment 0.0: the final_score of
\* every slot is base_engagement * 0.6 + overall_sentiment * 0.06 + jitter.
C8_EmptyHistoryIsZero ==
    /\ (hist_call.made /\ Len(hist_call.engagement_history) = 0)
         => (hist_call.outcome = "returned" /\ hist_call.result = F(0))
    /\ (calls > 0 /\ (call.engagement_history.is_none
                        \/ Len(call.engagement_history.items) = 0))
         => /\ Returned
            /\ locals.history_adjustment = F(0)
            /\ Len(locals.final_score) = 42
            /\ \A i \in 1..Len(locals.final_score) :
                 locals.final_score[i] =
                     F((InitializeTimeSlots[i].base_engagement * 6) \div 10
                         + (CallSentiment * 6) \div 100
                         + call.jitter[i])

\* C8 witness: a call with the history [] and overall_sentiment 1.0 has
\* returned.
C8_Witness ==
    /\ Returned
    /\ ~call.engagement_history.is_none
    /\ call.engagement_history.items = <<>>
    /\ CallSentiment = Dec(10000)
    /\ \E i \in 1..Len(locals.final_score) : call.jitter[i] # 0

WellFormed(items) ==
    /\ Len(items) > 0
    /\ \A i \in 1..Len(items) : ~Malformed(items[i])

\* The records within 2 hours of h, without wraparound.
InWindow(items, h) ==
    {i \in 1..Len(items) :
       /\ items[i].hour_of_day - h <= 2
       /\ h - items[i].hour_of_day <= 2}

RECURSIVE EngagementTotal(_, _, _)
EngagementTotal(items, W, n) ==
    IF n = 0 THEN 0
    ELSE (IF n \in W THEN items[n].estimated_engagement ELSE 0)
           + EngagementTotal(items, W, n - 1)

\* `result` is the mean of estimated_engagement over the records of items
\* within 2 hours of h, or 0.5 when there is none.
IsWindowMean(items, h, result) ==
    LET W == InWindow(items, h)
    IN  /\ ~result.nan
        /\ IF W = {} THEN result.val = Dec(5000)
           ELSE result.val * Cardinality(W)
                  = EngagementTotal(items, W, Len(items))

\* C9: on a non-empty well-formed history, _calculate_history_adjustment
\* (called directly or by calculate_optimal_times) returns the mean of
\* estimated_engagement over the records with |hour_of_day - h| <= 2, and 0.5
\* when no record is within that window.
C9_WindowMean ==
    /\ (hist_call.made /\ WellFormed(hist_call.engagement_history))
         => /\ hist_call.outcome = "returned"
            /\ IsWindowMean(hist_call.engagement_history,
                            hist_call.current_hour, hist_call.result)
    /\ (calls > 0 /\ ~call.engagement_history.is_none
          /\ WellFormed(call.engagement_history.items))
         => /\ Returned
            /\ IsWindowMean(call.engagement_history.items, call.current_hour,
                            locals.history_adjustment)

\* C9 witness: a direct call at hour 12 on two well-formed records, one at
\* hour 14 (included) and one at hour 0 (excluded), returned the engagement
\* of the first.
C9_Witness ==
    /\ hist_call.made
    /\ hist_call.current_hour = 12
    /\ Len(hist_call.engagement_history) = 2
    /\ WellFormed(hist_call.engagement_history)
    /\ hist_call.engagement_history[1].hour_of_day = 14
    /\ hist_call.engagement_history[2].hour_of_day = 0
    /\ hist_call.result.val
         = hist_call.engagement_history[1].estimated_engagement
    /\ hist_call.result.val
         # hist_call.engagement_history[2].estimated_engagement

\* The case of C10: overall_sentiment 1.0 and a history of records of
\* engagement 1.0 that makes the history adjustment 1.0.
C10_Case ==
    /\ Returned
    /\ "overall_sentiment" \in DOMAIN call.sentiment_results
    /\ call.sentiment_results.overall_sentiment = Dec(10000)
    /\ ~call.engagement_history.is_none
    /\ WellFormed(call.engagement_history.items)
    /\ \A i \in 1..Len(call.engagement_history.items) :
         call.engagement_history.items[i].estimated_engagement = Dec(10000)
    /\ locals.history_adjustment = F(Dec(10000))

\* C10 (as claimed): in that case some slot has a final_score above 0.99,
\* and its score is 0.99.
C10_RawExceedsClamp ==
    C10_Case =>
        \E i \in 1..Len(locals.final_score) :
            /\ locals.final_score[i].val > Dec(9900)
            /\ heap[time_slots[i]].score = F(Dec(9900))

\* C10 (amended): in that case no final_score is above 0.72, so no score is
\* clamped: every score is its final_score; and in every call a final_score
\* above 0.99 is clamped to exactly 0.99.
C10_ClampAmended ==
    /\ C10_Case =>
         \A i \in 1..Len(locals.final_score) :
             /\ locals.final_score[i].val <= Dec(7200)
             /\ heap[time_slots[i]].score = locals.final_score[i]
    /\ Returned =>
         \A i \in 1..Len(locals.final_score) :
             (~locals.final_score[i].nan
                /\ locals.final_score[i].val > Dec(9900))
             => heap[time_slots[i]].score = F(Dec(9900))

\* C10 witness: in that case a slot reached the final_score 0.72.
C10_Witness ==
    /\ C10_Case
    /\ \E i \in 1..Len(locals.final_score) :
         locals.final_score[i].val = Dec(7200)

\* The text the thresholds 0.8, 0.7 and 0.6 give the number x.
ThresholdText(x) ==
    IF x >= Dec(8000) THEN "Excellent time to post - high expected engagement"
    ELSE IF x >= Dec(7000)
    THEN "Good time to post - above average engagement expected"
    ELSE IF x >= Dec(6000) THEN "Moderate time - average engagement expected"
    ELSE "Lower priority - consider other time slots first"

\* C11: the recommendation of every returned record is the text the
\* thresholds give the unrounded score of its slot: Excellent from exactly
\* 0.8 up, Good from 0.7 up to 0.7999 (reported as 0.8) and below 0.8,
\* Moderate from 0.6, Lower priority below 0.6.
C11_TextFromUnroundedScore ==
    Returned =>
        \A i \in 1..Len(top_slots) :
            LET score == heap[SlotOfRecord(top_slots[i])].score
            IN  /\ ~score.nan
                /\ top_slots[i].recommendation = ThresholdText(score.val)
                /\ score.val = Dec(8000) =>
                     top_slots[i].recommendation
                       = "Excellent time to post - high expected engagement"
                /\ score.val = Dec(7999) =>
                     /\ top_slots[i].recommendation
                          = "Good time to post - above average engagement expected"
                     /\ top_slots[i].score = F(Dec(8000))

\* C11 witness: a call returned a record whose slot scored 0.7999, reported
\* as 0.8 with the Good text, above a record of another text.
C11_Witness ==
    /\ Returned
    /\ \E i \in 1..Len(top_slots) :
         /\ heap[SlotOfRecord(top_slots[i])].score = F(Dec(7999))
         /\ top_slots[i].score = F(Dec(8000))
         /\ top_slots[i].recommendation
              = "Good time to post - above average engagement expected"
    /\ top_slots[1].recommendation
         = "Excellent time to post - high expected engagement"

\* A call returned a record whose slot scored exactly 0.8, with the
\* Excellent text.
C11_ExactlyEightTenths ==
    /\ Returned
    /\ \E i \in 1..Len(top_slots) :
         /\ heap[SlotOfRecord(top_slots[i])].score = F(Dec(8000))
         /\ top_slots[i].recommendation
              = "Excellent time to post - high expected engagement"

\* The case of C12: overall_sentiment 0 (given or defaulted), no history or
\* an empty one, and every random draw 0.
C12_Case ==
    /\ Returned
    /\ CallSentiment = 0
    /\ ~Truthy(call.engagement_history)
    /\ \A i \in 1..NumSlots : call.jitter[i] = 0

\* C12: with overall_sentiment 0, an empty history and every jitter 0, the
\* first returned record has its day among Tuesday, Wednesday, Thursday and
\* the time 09:00-11:00.
C12_TopSlotMidweekMorning ==
    C12_Case =>
        /\ top_slots[1].day \in {"Tuesday", "Wednesday", "Thursday"}
        /\ top_slots[1].time = "09:00-11:00"

\* C12 witness: such a call, given overall_sentiment 0 and the history [],
\* returned Tuesday 09:00-11:00 first, with the score 0.85 * 0.6 = 0.51.
C12_Witness ==
    /\ C12_Case
    /\ HasKey(call.sentiment_results, "overall_sentiment")
    /\ ~call.engagement_history.is_none
    /\ top_slots[1].day = "Tuesday"
    /\ top_slots[1].time = "09:00-11:00"
    /\ top_slots[1].score = F(Dec(5100))

\* A step that is a call following a returned call on the same scheduler,
\* with the same sentiment summary, the same history and the same random
\* draws, and returning too.
RepeatedCall ==
    /\ calls >= 1
    /\ calls' = calls + 1
    /\ outcome = "returned"
    /\ outcome' = "returned"
    /\ call'.sentiment_results = call.sentiment_results
    /\ call'.engagement_history = call.engagement_history
    /\ call'.jitter = call.jitter

\* C13 (as claimed): a call given the same sentiment summary, history and
\* per-slot jitter as the call before it returns the same list, whatever the
\* time of the call.
C13_SameInputsSameOutput ==
    [][RepeatedCall => top_slots' = top_slots]_vars

\* What the code does: the repeated call returns the same list when it is
\* also made at the same wall-clock hour; the scores the earlier call left
\* in the slot dicts have no influence.
C13_SameHourSameOutput ==
    [][(RepeatedCall /\ call'.current_hour = call.current_hour)
         => top_slots' = top_slots]_vars

\* The (day, time_range) pairs of a sequence of slot dicts.
SlotPairs(slots) ==
    {<<slots[i].day, slots[i].time_range>> : i \in 1..Len(slots)}

\* The sequence `slots` holds 42 slots, a slot for every day and window and
\* no two with the same (day, time_range).
IsFullCatalog(slots) ==
    /\ Len(slots) = 42
    /\ SlotPairs(slots) = WeekdayNames \X WindowLabels
    /\ \A i, j \in 1..Len(slots) :
         (slots[i].day = slots[j].day
            /\ slots[i].time_range = slots[j].time_range) => i = j

\* The slot dicts self.time_slots lists, in list order.
TemplateSlots == [i \in 1..Len(time_slots) |-> heap[time_slots[i]]]

\* C14: in every state, after initialization and after any sequence of
\* calls, the catalog of the scheduler (and of a second scheduler, once
\* built) holds exactly 42 slots, one for each of the 7 days and 6 windows,
\* no two with the same (day, time_range).
C14_FortyTwoUniqueSlots ==
    /\ IsFullCatalog(TemplateSlots)
    /\ other.made => IsFullCatalog(other.time_slots)

\* C14 witness: two calls have returned, the second leaving its sorted list
\* in an order other than the catalog's, and the catalog is full.
C14_Witness ==
    /\ calls = 2
    /\ Returned
    /\ Len(lists[LocalList]) = 42
    /\ lists[LocalList] # time_slots
    /\ IsFullCatalog(TemplateSlots)

\* C15: a second, independent initialization gives every (day, window) pair
\* the base_engagement the first scheduler holds for it, whenever it happens
\* and whatever calls were made before.
C15_SameBaseEngagement ==
    other.made =>
        /\ Len(other.time_slots) = Len(time_slots)
        /\ \A i \in 1..Len(other.time_slots) :
             /\ other.time_slots[i].day = heap[time_slots[i]].day
             /\ other.time_slots[i].time_range = heap[time_slots[i]].time_range
             /\ other.time_slots[i].base_engagement
                  = heap[time_slots[i]].base_engagement

\* C15 witness: the second scheduler was built after a call on the first one
\* had written its scores; another call followed.
C15_Witness ==
    /\ other.made
    /\ calls = 2
    /\ Returned
    /\ HasKey(heap[time_slots[1]], "score")
    /\ ~HasKey(other.time_slots[1], "score")
    /\ other.time_slots[8].base_engagement = Dec(8500)

\* clamp(x, lo, hi) on numbers.
Clamp(x, lo, hi) == IF x < lo THEN lo ELSE IF x > hi THEN hi ELSE x

\* base_engagement * 0.6 + (overall_sentiment * 0.2) * 0.3
\*   + history_adjustment * 0.1 + jitter, for the i-th slot of the catalog in
\* the last call, the history adjustment being the number h.
BlendOfCall(i, h) ==
    (InitializeTimeSlots[i].base_engagement * 6) \div 10
      + (CallSentiment * 6) \div 100
      + h \div 10
      + call.jitter[i]

\* C16: after a call, every one of the 42 slots has the score
\* clamp(base_engagement * 0.6 + (overall_sentiment * 0.2) * 0.3
\*         + history_adjustment * 0.1 + jitter, 0.1, 0.99)
\* with its own jitter in [-0.05, 0.05] and the call's one sentiment term and
\* one history term, and stores overall_sentiment * 0.2 as its
\* sentiment_adjustment; where the history adjustment is NaN the clamp
\* max(0.1, min(0.99, NaN)) leaves 0.99.
C16_BlendFormula ==
    Returned =>
        \A i \in 1..NumSlots :
            /\ Dec(-500) <= call.jitter[i]
            /\ call.jitter[i] <= Dec(500)
            /\ heap[time_slots[i]].sentiment_adjustment
                 = (CallSentiment * 2) \div 10
            /\ heap[time_slots[i]].score =
                 IF locals.history_adjustment.nan THEN F(Dec(9900))
                 ELSE F(Clamp(BlendOfCall(i, locals.history_adjustment.val),
                              Dec(1000), Dec(9900)))

\* C16 witness: a call with overall_sentiment -8.0 and the history
\* adjustment 0.6 left one slot at its blend 0.14 (jitter 0.05) and another,
\* whose blend is below 0.1, at 0.1.
C16_Witness ==
    /\ Returned
    /\ CallSentiment = Dec(-80000)
    /\ locals.history_adjustment = F(Dec(6000))
    /\ \E i \in 1..NumSlots :
         /\ call.jitter[i] = Dec(500)
         /\ BlendOfCall(i, Dec(6000)) = Dec(1400)
         /\ heap[time_slots[i]].score = F(Dec(1400))
    /\ \E i \in 1..NumSlots :
         /\ BlendOfCall(i, Dec(6000)) < Dec(1000)
         /\ heap[time_slots[i]].score = F(Dec(1000))

\* The day base of the table: 0.7 midweek, 0.6 Monday and Friday, 0.5 at the
\* weekend.
DayBase(day) ==
    CASE day \in {"Tuesday", "Wednesday", "Thursday"} -> Dec(7000)
      [] day \in {"Monday", "Friday"} -> Dec(6000)
      [] day \in {"Saturday", "Sunday"} -> Dec(5000)

\* The bonus of the table for a window starting at `hour`.
HourBonus(hour) ==
    IF hour \in 9..11 THEN Dec(1500)
    ELSE IF hour \in 13..15 THEN Dec(1000)
    ELSE IF hour \in 19..21 THEN Dec(500)
    ELSE 0

\* The slot dict has the base_engagement of the table, within [0.5, 0.95].
HasTableBase(slot) ==
    /\ slot.base_engagement
         = Clamp(DayBase(slot.day) + HourBonus(slot.start_hour), 0, Dec(9500))
    /\ Dec(5000) <= slot.base_engagement
    /\ slot.base_engagement <= Dec(9500)

\* C17: each of the 42 slots, of the scheduler in every state and of a
\* second scheduler once built, has base_engagement
\* = min(0.95, dayBase + bonus), which lies in [0.5, 0.95].
C17_BaseEngagementTable ==
    /\ \A i \in 1..Len(time_slots) : HasTableBase(heap[time_slots[i]])
    /\ other.made =>
         \A i \in 1..Len(other.time_slots) : HasTableBase(other.time_slots[i])

\* C17 witness: a second scheduler is built after two calls on the first;
\* in both, Tuesday 11:00 has 0.85, Monday 15:00 has 0.70, Friday 19:00 has
\* 0.65 and Sunday 17:00 has 0.5.
C17_Witness ==
    /\ other.made
    /\ calls = 2
    /\ \A slots \in {TemplateSlots, other.time_slots} :
         /\ Len(slots) = 42
         /\ slots[8].day = "Tuesday" /\ slots[8].start_hour = 11
         /\ slots[8].base_engagement = Dec(8500)
         /\ slots[4].day = "Monday" /\ slots[4].start_hour = 15
         /\ slots[4].base_engagement = Dec(7000)
         /\ slots[30].day = "Friday" /\ slots[30].start_hour = 19
         /\ slots[30].base_engagement = Dec(6500)
         /\ slots[41].day = "Sunday" /\ slots[41].start_hour = 17
         /\ slots[41].base_engagement = Dec(5000)

\* The position of slot object r in the catalog self.time_slots.
CatalogIndex(r) == CHOOSE i \in 1..Len(time_slots) : time_slots[i] = r

\* The list the last call sorted.
SortedSlots == lists[LocalList]

\* C18: after a call, slots of equal score stand in the sorted list, and so
\* in the returned top 5, in their catalog order (Monday..Sunday, within a
\* day 09:00..19:00).
C18_StableSort ==
    Returned =>
        /\ \A j, k \in 1..Len(SortedSlots) :
             (j < k /\ heap[SortedSlots[j]].score = heap[SortedSlots[k]].score)
             => CatalogIndex(SortedSlots[j]) < CatalogIndex(SortedSlots[k])
        /\ \A j, k \in 1..Len(top_slots) :
             (j < k /\ heap[SlotOfRecord(top_slots[j])].score
                        = heap[SlotOfRecord(top_slots[k])].score)
             => CatalogIndex(SlotOfRecord(top_slots[j]))
                  < CatalogIndex(SlotOfRecord(top_slots[k]))

\* C18 witness: a second call in which the six slots of base 0.85 tie
\* returned the first five of them in catalog order.
C18_Witness ==
    /\ calls = 2
    /\ Returned
    /\ \A i \in 1..5 :
         heap[SlotOfRecord(top_slots[i])].score
           = heap[SlotOfRecord(top_slots[1])].score
    /\ heap[SortedSlots[6]].score = heap[SortedSlots[1]].score
    /\ [i \in 1..5 |-> <<top_slots[i].day, top_slots[i].time>>]
         = << <<"Tuesday", "09:00-11:00">>, <<"Tuesday", "11:00-13:00">>,
              <<"Wednesday", "09:00-11:00">>, <<"Wednesday", "11:00-13:00">>,
              <<"Thursday", "09:00-11:00">> >>

\* C19: after any sequence of calls self.time_slots lists the slot objects
\* in the order of initialization, and each has the day, time_range,
\* start_hour and base_engagement initialization gave it.
C19_TemplateOrderAndBase ==
    /\ time_slots = InitialTimeSlotList
    /\ \A i \in 1..Len(time_slots) :
         \A key \in {"day", "time_range", "start_hour", "base_engagement"} :
             /\ HasKey(heap[time_slots[i]], key)
             /\ heap[time_slots[i]][key] = InitializeTimeSlots[i][key]

\* C19 witness: two calls have returned; the second sorted its own list
\* into another order and wrote its scores into the slot dicts, whose
\* sentiment_adjustment is no longer the initial 0.
C19_Witness ==
    /\ calls = 2
    /\ Returned
    /\ SortedSlots # time_slots
    /\ SortedSlots[1] # time_slots[1]
    /\ \A i \in 1..Len(time_slots) :
         /\ HasKey(heap[time_slots[i]], "score")
         /\ heap[time_slots[i]].sentiment_adjustment # 0

\* No score of the last call hit a clamp bound: every final_score is a
\* number strictly between 0.1 and 0.99.
NoClampInCall ==
    /\ Len(locals.final_score) = NumSlots
    /\ \A i \in 1..NumSlots :
         /\ ~locals.final_score[i].nan
         /\ Dec(1000) < locals.final_score[i].val
         /\ locals.final_score[i].val < Dec(9900)

\* For each pattern of random draws, the call on a new scheduler with those
\* draws, a sentiment summary without overall_sentiment and no history; none
\* of its scores (base_engagement * 0.6 + jitter, within 0.25..0.56) hits a
\* bound.
BaselineCalls ==
    [p \in JitterPatterns |->
       Run([l \in ListObjects |->
              IF l = SelfList THEN InitialTimeSlotList ELSE <<>>],
           InitializeTimeSlots, LocalList,
           Args(NoSentimentKey, None, 0, Jitter(p)))]

\* The baseline call with the random draws of the last call.
BaselineCall ==
    BaselineCalls[CHOOSE p \in JitterPatterns : Jitter(p) = call.jitter]

\* The (day, time) pairs of a returned list, in order.
DayTimePairs(records) ==
    [i \in 1..Len(records) |-> <<records[i].day, records[i].time>>]

\* C20: a call none of whose scores hits a clamp bound ranks the slots, and
\* returns the (day, time) pairs, as the call with the same jitter and
\* neither sentiment nor history does; so for fixed jitter all such calls,
\* whatever their sentiment summary and history, return the same sequence of
\* (day, time) pairs.
C20_RankingIndependent ==
    (Returned /\ NoClampInCall) =>
        /\ SortedSlots = BaselineCall.lists[LocalList]
        /\ DayTimePairs(top_slots) = DayTimePairs(BaselineCall.top_slots)

\* C20 witness: a call with overall_sentiment -1.0, the history adjustment
\* 3.0 and unequal draws returned the pairs of the baseline call, with other
\* scores and another first text.
C20_Witness ==
    /\ Returned
    /\ NoClampInCall
    /\ CallSentiment = Dec(-10000)
    /\ locals.history_adjustment = F(Dec(30000))
    /\ call.jitter[1] # call.jitter[2]
    /\ DayTimePairs(top_slots) = DayTimePairs(BaselineCall.top_slots)
    /\ top_slots[1].score # BaselineCall.top_slots[1].score
    /\ top_slots[1].recommendation # BaselineCall.top_slots[1].recommendation
    /\ top_slots[1].time # "09:00-11:00"

\* The case of C21: overall_sentiment within [-1, 1], the history adjustment
\* a number within [0, 1] and every jitter within [-0.05, 0.05].
C21_Case ==
    /\ Returned
    /\ Dec(-10000) <= CallSentiment
    /\ CallSentiment <= Dec(10000)
    /\ ~locals.history_adjustment.nan
    /\ 0 <= locals.history_adjustment.val
    /\ locals.history_adjustment.val <= Dec(10000)
    /\ \A i \in 1..NumSlots :
         Dec(-500) <= call.jitter[i] /\ call.jitter[i] <= Dec(500)

\* C21: in that case every slot's raw score lies in [0.19, 0.72], so no
\* score is clamped (each score is its raw score) and no returned record
\* carries the Excellent text.
C21_RawScoreRange ==
    C21_Case =>
        /\ \A i \in 1..NumSlots :
             /\ ~locals.final_score[i].nan
             /\ Dec(1900) <= locals.final_score[i].val
             /\ locals.final_score[i].val <= Dec(7200)
             /\ heap[time_slots[i]].score = locals.final_score[i]
        /\ \A i \in 1..Len(top_slots) :
             /\ top_slots[i].score.val < Dec(8000)
             /\ top_slots[i].recommendation
                  # "Excellent time to post - high expected engagement"

\* C21 witness: with overall_sentiment -1.0, no history adjustment and the
\* jitter -0.05 a weekend 17:00 slot (base 0.5) has the raw score 0.19.
C21_Witness ==
    /\ C21_Case
    /\ CallSentiment = Dec(-10000)
    /\ locals.history_adjustment = F(0)
    /\ \E i \in 1..NumSlots :
         /\ heap[time_slots[i]].base_engagement = Dec(5000)
         /\ call.jitter[i] = Dec(-500)
         /\ locals.final_score[i] = F(Dec(1900))
         /\ heap[time_slots[i]].score = F(Dec(1900))

\* C22: a call that returns on a scheduler, fresh or having served earlier
\* calls, returns the list the same call (same sentiment, history, hour and
\* jitter) returns on a new scheduler.
C22_IndependentOfEarlierCalls ==
    Returned => top_slots = RunAlone(call)

\* C22 witness: a second call on a scheduler, every slot dict of which
\* carried the first call's score, returned the list of a new scheduler,
\* its scores not all clamped alike.
C22_Witness ==
    /\ calls = 2
    /\ Returned
    /\ top_slots = RunAlone(call)
    /\ Len(top_slots) = 5
    /\ top_slots[1].score # top_slots[5].score
    /\ Truthy(call.engagement_history)

\* C23: engagement_history only grows, by one record per completed run: it
\* is the loaded history followed by one record for each run that returned
\* its pipeline's result; such a run appended exactly one record, with
\* hour_of_day the current hour and estimated_engagement in [0.5, 1.0],
\* after its schedule was computed from the history as it stood before; a
\* run that returned the demo data left engagement_history as it was.
C23_HistoryGrowsByOne ==
    /\ Len(assistant_history) = Len(LoadedHistory) + runs.completed
    /\ SubSeq(assistant_history, 1, Len(LoadedHistory)) = LoadedHistory
    /\ last_run.kind = "pipeline" =>
         LET before == last_run.history_before
             entry == assistant_history[Len(assistant_history)]
         IN  /\ Len(assistant_history) = Len(before) + 1
             /\ SubSeq(assistant_history, 1, Len(before)) = before
             /\ entry.hour_of_day = last_run.current_hour
             /\ Dec(5000) <= entry.estimated_engagement
             /\ entry.estimated_engagement <= Dec(10000)
             /\ call.engagement_history = List(before)
             /\ last_run.result.optimal_times
                  = RunAlone(Args(last_run.result.sentiment_results,
                                  List(before), last_run.current_hour,
                                  call.jitter))
    /\ last_run.kind = "demo" =>
         assistant_history = last_run.history_before

\* C23 witness: of two runs one fell back to the demo data and the other,
\* at hour 23, completed: the history is the loaded one and one record of
\* hour 23, and the schedule was computed from the loaded history alone.
C23_Witness ==
    /\ runs = [made |-> 2, completed |-> 1]
    /\ last_run.kind = "pipeline"
    /\ last_run.history_before = LoadedHistory
    /\ Len(assistant_history) = Len(LoadedHistory) + 1
    /\ assistant_history[Len(assistant_history)].hour_of_day = 23
    /\ call.engagement_history = List(LoadedHistory)

\* The keys of the dict run_analysis returns.
ResultKeys == {"tweets_analyzed", "sentiment_results", "optimal_times",
               "content_suggestions", "tweets_sample"}

\* C24: every run_analysis call returns a dict with the five keys: the demo
\* data when a step of its pipeline raised; otherwise its pipeline's
\* result, also when the write of the analysis file or of the history file
\* failed, and computed on the sample data when the fetch gave no tweet.
C24_AlwaysReturnsResult ==
    runs.made > 0 =>
        /\ last_run.kind \in {"pipeline", "demo"}
        /\ DOMAIN last_run.result = ResultKeys
        /\ last_run.raised_at # "none" =>
             (last_run.kind = "demo" /\ last_run.result = GetDemoData)
        /\ last_run.raised_at = "none" =>
             /\ last_run.kind = "pipeline"
             /\ last_run.result.tweets_analyzed = Len(last_run.tweets)
             /\ last_run.result.optimal_times = top_slots
             /\ Len(last_run.tweets) > 0
             /\ Len(last_run.fetched) = 0 =>
                  (/\ last_run.tweets = LoadSampleData
                   /\ last_run.result.tweets_analyzed = 4
                   /\ last_run.result.tweets_sample
                        = <<"sample 1", "sample 2", "sample 3">>)

\* C24 witness: after a run in which the content generation raised (demo
\* data), a run that fetched no tweet and could not write the history file
\* returned its pipeline's result on the 4 sample tweets; the history file
\* lacks the appended record.
C24_Witness ==
    /\ runs = [made |-> 2, completed |-> 1]
    /\ calls = 2
    /\ last_run.kind = "pipeline"
    /\ Len(last_run.fetched) = 0
    /\ last_run.write_failures = {"history"}
    /\ last_run.result.tweets_analyzed = 4
    /\ Len(last_run.result.optimal_times) = 5
    /\ files.history # assistant_history
    /\ files.analyses = 1

\* A run whose update step raised returned the demo data after its analysis
\* file was written.
C24_DemoAfterSave ==
    /\ last_run.kind = "demo"
    /\ last_run.raised_at = "update"
    /\ last_run.result = GetDemoData
    /\ files.analyses = runs.made

=============================================================================
